---- MODULE Spec2Model ----
(***************************************************************************)
(* Model of the OpenCensus Jaeger exporter (jaeger.go, agent.go) together  *)
(* with the bundler it instantiates (google.golang.org/api/support/bundler *)
(* v0.70.0, pinned by go.mod).                                             *)
(*                                                                         *)
(* A span is identified by its SpanID.  NewExporter, ExportSpan and Flush  *)
(* are the public operations; the bundler's handler goroutine, its delay   *)
(* timer and the transports' outcomes are the environment.                 *)
(***************************************************************************)
EXTENDS Integers, Sequences, FiniteSets, TLC

\* ------------------------------------------------------------------ bounds
\* Spec: every Options value, a short run
\*   sampled spans, unsampled spans, Flush calls
CfgSpans == 1
CfgUnsampled == 1
CfgFlushes == 1
\* SpecRun: concurrent producers, Flush calls and deliveries
\*   sampled spans, Flush calls, and Add calls that may be between
\*   TryAcquire and b.mu.Lock at once
MaxSpans == 3
MaxFlushes == 2
MaxAdding == 1
\* SpecBurst: a burst of spans with no Flush
\*   sampled spans, timer expirations
BurstSpans == 11
BurstTimerFires == 1
\* SpecTranslate: the translation of one span record
\*   attributes of a span
MaxAttributes == 2

\* ------------------------------------------------------- program constants
\* agent.go: const udpPacketMaxLength
udpPacketMaxLength == 65000
\* bundler.NewBundler defaults (bundler.go: DefaultBundleCountThreshold,
\* DefaultBundleByteThreshold, DefaultBufferedByteLimit, HandlerLimit: 1,
\* BundleByteLimit left 0)
DefaultBundleCountThreshold == 10
DefaultBundleByteThreshold == 1000000
DefaultBufferedByteLimit == 1000000000
DefaultHandlerLimit == 1
DefaultBundleByteLimit == 0

\* jaeger.go: const opencensusStatusCodeOK
opencensusStatusCodeOK == 0
\* go.opencensus.io/trace: SpanKindUnspecified, SpanKindServer, SpanKindClient
SpanKindUnspecified == 0
SpanKindServer == 1
SpanKindClient == 2

defaultServiceName == "OpenCensus"
apiSuffix == "/api/traces?format=jaeger.thrift"

\* ------------------------------------------------------------------ values
Nil == [nil |-> TRUE]
NoErr == [kind |-> "nil"]
ErrMissingEndpoint == [kind |-> "config", msg |-> "missing endpoint for Jaeger exporter"]
ErrOverflow == [kind |-> "overflow"]
ErrOversizedItem == [kind |-> "oversizedItem"]

\* Tag constructors of jaeger.go (BoolTag, StringTag, Int64Tag)
BoolTag(key, value) == [key |-> key, value |-> [kind |-> "bool", v |-> value]]
StringTag(key, value) == [key |-> key, value |-> [kind |-> "string", v |-> value]]
Int64Tag(key, value) == [key |-> key, value |-> [kind |-> "int64", v |-> value]]

\* mutant of attributeToTag: a value of another kind becomes a string tag
attributeToTagKeepsAll(key, a) ==
  CASE a.kind = "bool" ->
         [Key |-> key, VType |-> "BOOL", VBool |-> [v |-> a.v], VStr |-> Nil, VLong |-> Nil, VDouble |-> Nil]
    [] a.kind = "int64" ->
         [Key |-> key, VType |-> "LONG", VBool |-> Nil, VStr |-> Nil, VLong |-> [v |-> a.v], VDouble |-> Nil]
    [] a.kind = "int32" ->
         [Key |-> key, VType |-> "LONG", VBool |-> Nil, VStr |-> Nil, VLong |-> [v |-> a.v], VDouble |-> Nil]
    [] a.kind = "float64" ->
         [Key |-> key, VType |-> "DOUBLE", VBool |-> Nil, VStr |-> Nil, VLong |-> Nil, VDouble |-> [v |-> a.v]]
    [] OTHER ->
         [Key |-> key, VType |-> "STRING", VBool |-> Nil, VStr |-> [v |-> a.v], VLong |-> Nil, VDouble |-> Nil]

\* attributeToTag: the type switch over the dynamic kind of the value.  A
\* jaeger.Tag has one pointer field per wire type: Nil is the unset pointer
\* and [v |-> x] a pointer to x.  The int32 case widens the value to int64,
\* which keeps its number.
attributeToTag(key, a) ==
  CASE a.kind = "bool" ->
         [Key |-> key, VType |-> "BOOL", VBool |-> [v |-> a.v], VStr |-> Nil, VLong |-> Nil, VDouble |-> Nil]
    [] a.kind = "string" ->
         [Key |-> key, VType |-> "STRING", VBool |-> Nil, VStr |-> [v |-> a.v], VLong |-> Nil, VDouble |-> Nil]
    [] a.kind = "int64" ->
         [Key |-> key, VType |-> "LONG", VBool |-> Nil, VStr |-> Nil, VLong |-> [v |-> a.v], VDouble |-> Nil]
    [] a.kind = "int32" ->
         [Key |-> key, VType |-> "LONG", VBool |-> Nil, VStr |-> Nil, VLong |-> [v |-> a.v], VDouble |-> Nil]
    [] a.kind = "float64" ->
         [Key |-> key, VType |-> "DOUBLE", VBool |-> Nil, VStr |-> Nil, VLong |-> Nil, VDouble |-> [v |-> a.v]]
    [] OTHER -> Nil

\* -------------------------------------------------------------- translation
\* An int64 exceeds the integers of the checker, so a 64-bit value is written
\* in base 2^16, most significant digit first: a uint64 has four digits in
\* 0..65535, and an int64 has its first digit in -32768..32767: its value is
\* d[1]*2^48 + d[2]*2^32 + d[3]*2^16 + d[4].

\* binary.BigEndian.Uint64(buf): buf[0] is the most significant byte
Uint64(buf) == [i \in 1..4 |-> buf[2 * i - 1] * 256 + buf[2 * i]]

\* mutant of bytesToInt64: the bytes are read least significant first
bytesToInt64LittleEndian(buf) ==
  LET u == [i \in 1..4 |-> buf[10 - 2 * i] * 256 + buf[9 - 2 * i]] IN
  [u EXCEPT ![1] = IF @ >= 32768 THEN @ - 65536 ELSE @]

\* bytesToInt64: int64(u) reinterprets the 64 bits in two's complement, so
\* a value with bit 63 set stands for u - 2^64
bytesToInt64(buf) ==
  LET u == Uint64(buf) IN
  [u EXCEPT ![1] = IF @ >= 32768 THEN @ - 65536 ELSE @]

\* mutant of name: the prefixes of client and server spans are exchanged
nameSwapped(sd) ==
  CASE sd.SpanKind = SpanKindClient -> "Recv." \o sd.Name
    [] sd.SpanKind = SpanKindServer -> "Sent." \o sd.Name
    [] OTHER -> sd.Name

\* name
name(sd) ==
  CASE sd.SpanKind = SpanKindClient -> "Sent." \o sd.Name
    [] sd.SpanKind = SpanKindServer -> "Recv." \o sd.Name
    [] OTHER -> sd.Name

\* the orders in which a `range` loop may visit the keys of a map
rangeOrders(attrs) ==
  LET n == Cardinality(DOMAIN attrs) IN
  {ord \in [1..n -> DOMAIN attrs] : \A i, j \in 1..n : ord[i] = ord[j] => i = j}

RECURSIVE attributeTags(_, _)
\* spanDataToThrift lines 204-209 and 225-230: the tags of the attributes of
\* a map whose keys the loop visits in the order `keys`, nil tags left out
attributeTags(attrs, keys) ==
  IF keys = <<>>
    THEN <<>>
    ELSE LET tag == attributeToTag(Head(keys), attrs[Head(keys)]) IN
         (IF tag # Nil THEN <<tag>> ELSE <<>>) \o attributeTags(attrs, Tail(keys))

\* mutant of statusTags: the error tag is appended whatever the status code
statusTagsAlwaysError(status) ==
  << attributeToTag("status.code", [kind |-> "int32", v |-> status.Code]),
     attributeToTag("status.message", [kind |-> "string", v |-> status.Message]),
     attributeToTag("error", [kind |-> "bool", v |-> TRUE]) >>

\* spanDataToThrift lines 211-220: the tags appended after the attributes'.
\* Status.Code is an int32
statusTags(status) ==
  << attributeToTag("status.code", [kind |-> "int32", v |-> status.Code]),
     attributeToTag("status.message", [kind |-> "string", v |-> status.Message]) >>
  \o (IF status.Code # opencensusStatusCodeOK
        THEN << attributeToTag("error", [kind |-> "bool", v |-> TRUE]) >>
        ELSE <<>>)

\* mutant of spanTags: the status tags come before the attributes' tags
spanTagsStatusFirst(data, keys) ==
  statusTags(data.Status) \o attributeTags(data.Attributes, keys)

\* spanDataToThrift lines 203-220: the variable tags
spanTags(data, keys) ==
  attributeTags(data.Attributes, keys) \o statusTags(data.Status)

\* spanDataToThrift lines 222-236: the variable logs; orders[i] is the order
\* in which the attributes of annotation i are visited.  Times are in
\* nanoseconds since the epoch, none before it
spanLogs(data, orders) ==
  [i \in 1..Len(data.Annotations) |->
     [Timestamp |-> data.Annotations[i].Time \div 1000,
      Fields |-> attributeTags(data.Annotations[i].Attributes, orders[i])
                 \o << attributeToTag("message",
                          [kind |-> "string", v |-> data.Annotations[i].Message]) >>]]

\* spanDataToThrift lines 237-244: the variable refs
spanRefs(data) ==
  [i \in 1..Len(data.Links) |->
     [TraceIdHigh |-> bytesToInt64(SubSeq(data.Links[i].TraceID, 1, 8)),
      TraceIdLow |-> bytesToInt64(SubSeq(data.Links[i].TraceID, 9, 16)),
      SpanId |-> bytesToInt64(data.Links[i].SpanID)]]

\* the choices spanDataToThrift leaves to the runtime: the order in which
\* each map of the span is visited
RangeChoices(data) ==
  [ tags : rangeOrders(data.Attributes),
    fields : { os \in [1..Len(data.Annotations) ->
                         UNION {rangeOrders(data.Annotations[i].Attributes)
                                  : i \in 1..Len(data.Annotations)}] :
               \A i \in 1..Len(data.Annotations) :
                 os[i] \in rangeOrders(data.Annotations[i].Attributes) } ]

\* spanDataToThrift.  TraceOptions is below 2^31, so int32() keeps its
\* number; EndTime is not before StartTime
spanDataToThrift(data, it) ==
  [ TraceIdHigh |-> bytesToInt64(SubSeq(data.TraceID, 1, 8)),
    TraceIdLow |-> bytesToInt64(SubSeq(data.TraceID, 9, 16)),
    SpanId |-> bytesToInt64(data.SpanID),
    ParentSpanId |-> bytesToInt64(data.ParentSpanID),
    OperationName |-> name(data),
    Flags |-> data.TraceOptions,
    StartTime |-> data.StartTime \div 1000,
    Duration |-> (data.EndTime - data.StartTime) \div 1000,
    Tags |-> spanTags(data, it.tags),
    Logs |-> spanLogs(data, it.fields),
    References |-> spanRefs(data) ]

\* ----------------------------------------------------------------- inputs
EndpointSet == {"", "http://jaeger:14268"}
\* a collector URL with an invalid percent-escape: url.Parse rejects it, and
\* with it http.NewRequest
InvalidURLs == {"http://collector:14268/api/traces%zz"}
CollectorEndpointSet == {"", "http://collector:14268/api/traces"} \cup InvalidURLs
AgentEndpointSet == {"", "localhost:6831"}
BufferMaxCountSet == {0, 2}
ProcessSet ==
  { [ServiceName |-> "", Tags |-> <<>>],
    [ServiceName |-> "svc", Tags |-> <<StringTag("host", "h1"), Int64Tag("pid", 7)>>] }
ServiceNameSet == {"", "legacy"}

\* Options values NewExporter is called with.  OnError is TRUE when a custom
\* hook is set and FALSE when the field is nil.
OptionsSet ==
  [ Endpoint : EndpointSet,
    CollectorEndpoint : CollectorEndpointSet,
    AgentEndpoint : AgentEndpointSet,
    OnError : BOOLEAN,
    ServiceName : ServiceNameSet,
    Process : ProcessSet,
    BufferMaxCount : BufferMaxCountSet ]

\* outcomes of the system calls in newAgentClientUDP
DialOutcomes == {"ok", "resolveErr", "dialErr", "setWriteBufferErr"}

\* trace.SpanData as far as ExportSpan reads it: TraceOptions bit 0 is the
\* sampling flag
TraceOptionsSampled == 1
TraceOptionsNotSampled == 0
\* mutant of IsSampled: ExportSpan does not test the sampling flag
IsSampledAlways(data) == TRUE
IsSampled(data) == data.TraceOptions % 2 = 1

\* ---- span records
\* trace.TraceID, trace.SpanID and the parent's SpanID of the spans translated
IdSamples ==
  { [TraceID |-> <<1, 2, 3, 4, 5, 6, 7, 8, 9, 10, 11, 12, 13, 14, 15, 16>>,
     SpanID |-> <<1, 2, 3, 4, 5, 6, 7, 8>>,
     ParentSpanID |-> <<0, 0, 0, 0, 0, 0, 0, 0>>],
    [TraceID |-> <<255, 0, 0, 0, 0, 0, 0, 0, 0, 0, 0, 0, 0, 0, 0, 1>>,
     SpanID |-> <<255, 255, 255, 255, 255, 255, 255, 255>>,
     ParentSpanID |-> <<128, 0, 0, 0, 0, 0, 0, 0>>],
    [TraceID |-> <<127, 255, 255, 255, 255, 255, 255, 255, 128, 0, 0, 0, 0, 0, 1, 0>>,
     SpanID |-> <<0, 0, 0, 0, 0, 0, 0, 1>>,
     ParentSpanID |-> <<0, 0, 0, 1, 0, 0, 255, 0>>] }

\* attribute values of each dynamic kind: the five kinds attributeToTag
\* knows, and a Go int and a struct, which it does not
KindValues ==
  { [kind |-> "bool", v |-> TRUE],
    [kind |-> "string", v |-> "value"],
    [kind |-> "int64", v |-> 42],
    [kind |-> "int32", v |-> 0 - 1],
    [kind |-> "float64", v |-> "123.456"],
    [kind |-> "int", v |-> 3] }

AttrKeys == {"key", "obj", "error", "status.code"}

\* the values each key takes in the spans translated
AttrValuesOf(k) ==
  CASE k = "key" -> KindValues
    [] k = "obj" -> {[kind |-> "struct", v |-> "{}"], [kind |-> "string", v |-> "s"]}
    [] k = "error" -> {[kind |-> "bool", v |-> TRUE]}
    [] OTHER -> {[kind |-> "int64", v |-> 7]}

AttrValues == UNION {AttrValuesOf(k) : k \in AttrKeys}

\* SpanData.Attributes: maps with at most MaxAttributes keys
AttributesSet ==
  UNION { {m \in [ks -> AttrValues] : \A k \in ks : m[k] \in AttrValuesOf(k)}
            : ks \in {x \in SUBSET AttrKeys : Cardinality(x) <= MaxAttributes} }

AnnotationsSet ==
  { <<>>,
    << [Time |-> 3500, Message |-> "retry",
        Attributes |-> ("answer" :> [kind |-> "int64", v |-> 42]
                        @@ "obj" :> [kind |-> "struct", v |-> "{}"])] >> }

LinksSet ==
  { <<>>,
    << [TraceID |-> <<128, 0, 0, 0, 0, 0, 0, 0, 255, 255, 255, 255, 255, 255, 255, 254>>,
        SpanID |-> <<0, 0, 0, 0, 0, 0, 2, 0>>] >> }

StatusSet == {[Code |-> 0, Message |-> "OK"], [Code |-> 2, Message |-> "error"]}

SpanKindSet == {SpanKindUnspecified, SpanKindServer, SpanKindClient, SpanKindClient + 1}

\* trace.SpanData values handed to spanDataToThrift
SpanDataSet ==
  { [TraceID |-> ids.TraceID, SpanID |-> ids.SpanID, ParentSpanID |-> ids.ParentSpanID,
     TraceOptions |-> TraceOptionsSampled, SpanKind |-> kind, Name |-> "/foo",
     StartTime |-> 2500, EndTime |-> 4000,
     Attributes |-> attrs, Annotations |-> anns, Status |-> status, Links |-> links]
    : ids \in IdSamples, kind \in SpanKindSet, attrs \in AttributesSet,
      anns \in AnnotationsSet, status \in StatusSet, links \in LinksSet }

\* the span records of the delivery runs: span n of a producer, with no
\* attributes, annotations or links
NewSpanData(spanID, traceOptions) ==
  [TraceID |-> <<0, 0, 0, 0, 0, 0, 0, 0, 0, 0, 0, 0, 0, 0, 0, 1>>, SpanID |-> spanID,
   ParentSpanID |-> <<0, 0, 0, 0, 0, 0, 0, 0>>,
   TraceOptions |-> traceOptions, SpanKind |-> SpanKindUnspecified, Name |-> "op",
   StartTime |-> 0, EndTime |-> 0,
   Attributes |-> <<>>, Annotations |-> <<>>,
   Status |-> [Code |-> opencensusStatusCodeOK, Message |-> ""], Links |-> <<>>]
\* SpanID of the n-th sampled span and of the n-th unsampled span
SampledSpanID(n) == <<0, 0, 0, 0, 0, 0, 0, n>>
UnsampledSpanID(n) == <<255, 255, 255, 255, 255, 255, 255, 256 - n>>

\* codec outcomes of encoding one batch: an encoded length or an encode error
EncodedLens == {udpPacketMaxLength - 1, udpPacketMaxLength, udpPacketMaxLength + 1}
EncodeOutcomes == {[ok |-> FALSE, len |-> 0]} \cup {[ok |-> TRUE, len |-> n] : n \in EncodedLens}
WriteOutcomes == {"ok", "err"}
\* outcomes of http.DefaultClient.Do: a response status or a network failure
StatusCodes == {199, 200, 299, 300}
HttpOutcomes == {[kind |-> "netErr", code |-> 0]} \cup {[kind |-> "status", code |-> c] : c \in StatusCodes}

\* --------------------------------------------------------------- variables
VARIABLES
  newErr,        \* error returned by NewExporter; Nil before the call
  e,             \* the *Exporter returned by NewExporter, or Nil
  o,             \* the Options NewExporter was called with; Nil before
  connUDP,       \* agentClientUDP.connUDP: "none" or "open"
  thriftBuffer,  \* agentClientUDP.thriftBuffer: sequence of encoded chunks
  b,             \* the bundler's fields, or Nil
  handlers,      \* goroutines running Bundler.handle
  adding,        \* items whose Add has acquired the semaphore, not yet b.mu
  waiting,       \* Flush calls blocked on <-prev / wg.Wait, by flush number
  nSampled,      \* sampled spans ingested so far
  nUnsampled,    \* unsampled spans ingested so far
  timerFires,    \* timer expirations so far
  \* ---- observations of the run (written, never read by the program)
  callerErr,     \* errors returned to callers of the public API
  accepted,      \* SpanIds whose ExportSpan completed with Add returning nil
  dropped,       \* SpanIds whose Add returned an error
  uploadCount,   \* SpanId -> number of times upload was invoked with it
  lastDelivery,  \* the handler invocation that returned last, or Nil
  \* ---- a call of spanDataToThrift on its own
  sd,            \* the *trace.SpanData it is called with, or Nil
  span           \* the *jaeger.Span it returned, or Nil before it returns

vars == << newErr, e, o, connUDP, thriftBuffer, b, handlers, adding, waiting,
           nSampled, nUnsampled, timerFires, callerErr, accepted, dropped,
           uploadCount, lastDelivery, sd, span >>

\* jaeger.Span.SpanId of the sampled spans of the delivery runs
SpanIds == {bytesToInt64(SampledSpanID(n)) : n \in 1..(CfgSpans + MaxSpans + BurstSpans)}

\* ------------------------------------------------------------ construction
\* mutant of newAgentClientUDP: a failed system call gives no client and no
\* error
newAgentClientUDPHidesError(hostPort, maxPacketSize, dial) ==
  LET size == IF maxPacketSize = 0 THEN udpPacketMaxLength ELSE maxPacketSize IN
  IF dial = "ok"
    THEN [client |-> [maxPacketSize |-> size], err |-> NoErr, conn |-> "open"]
    ELSE [client |-> Nil, err |-> NoErr, conn |-> "none"]

\* newAgentClientUDP(hostPort, maxPacketSize): the client, the error and the
\* state of the socket it leaves behind, for each outcome of the system calls
newAgentClientUDP(hostPort, maxPacketSize, dial) ==
  LET size == IF maxPacketSize = 0 THEN udpPacketMaxLength ELSE maxPacketSize IN
  CASE dial = "resolveErr" ->
         [client |-> Nil, err |-> [kind |-> "resolve", host |-> hostPort], conn |-> "none"]
    [] dial = "dialErr" ->
         [client |-> Nil, err |-> [kind |-> "dial", host |-> hostPort], conn |-> "none"]
    [] dial = "setWriteBufferErr" ->
         [client |-> Nil, err |-> [kind |-> "setWriteBuffer", host |-> hostPort], conn |-> "open"]
    [] OTHER ->
         [client |-> [maxPacketSize |-> size], err |-> NoErr, conn |-> "open"]

\* mutant of missingEndpoint: the check forgets AgentEndpoint
missingEndpointIgnoresAgent(opts) ==
  opts.Endpoint = "" /\ opts.CollectorEndpoint = ""

\* NewExporter line 81: no destination is configured
missingEndpoint(opts) ==
  opts.Endpoint = "" /\ opts.CollectorEndpoint = "" /\ opts.AgentEndpoint = ""

\* mutant of resolveDestination: CollectorEndpoint is tested before Endpoint
resolveDestinationCollectorFirst(opts) ==
  IF opts.CollectorEndpoint # ""
    THEN [endpoint |-> opts.CollectorEndpoint, agent |-> FALSE]
    ELSE IF opts.Endpoint # ""
      THEN [endpoint |-> opts.Endpoint \o apiSuffix, agent |-> FALSE]
      ELSE [endpoint |-> "", agent |-> TRUE]

\* NewExporter lines 85-98: which destination the options resolve to
resolveDestination(opts) ==
  IF opts.Endpoint # ""
    THEN [endpoint |-> opts.Endpoint \o apiSuffix, agent |-> FALSE]
    ELSE IF opts.CollectorEndpoint # ""
      THEN [endpoint |-> opts.CollectorEndpoint, agent |-> FALSE]
      ELSE [endpoint |-> "", agent |-> TRUE]

\* NewExporter lines 106-116, 123-126: the process of every batch
newProcess(opts) ==
  LET service ==
        IF opts.Process.ServiceName = "" /\ opts.ServiceName # ""
          THEN opts.ServiceName
          ELSE IF opts.Process.ServiceName = ""
            THEN defaultServiceName
            ELSE opts.Process.ServiceName
  IN [ServiceName |-> service,
      Tags |-> [i \in 1..Len(opts.Process.Tags) |->
                  attributeToTag(opts.Process.Tags[i].key, opts.Process.Tags[i].value)]]

\* bundler.NewBundler, then NewExporter lines 137-139
NewBundler(opts) ==
  [ BundleCountThreshold |-> DefaultBundleCountThreshold,
    BundleByteThreshold |-> DefaultBundleByteThreshold,
    BundleByteLimit |-> DefaultBundleByteLimit,
    BufferedByteLimit |-> IF opts.BufferMaxCount # 0
                            THEN opts.BufferMaxCount
                            ELSE DefaultBufferedByteLimit,
    HandlerLimit |-> DefaultHandlerLimit,
    sem |-> 0,              \* weight acquired from the semaphore
    curBundle |-> Nil,      \* bundle items are being added to
    queue |-> <<>>,         \* closed bundles waiting for a handler (head first)
    handlerCount |-> 0,
    flushTimer |-> "nil",   \* "nil", or "armed" while a timer is running
    curFlush |-> 0,         \* number of the current flush WaitGroup
    wg |-> <<0>>,           \* counter of WaitGroup k at index k + 1
    closed |-> 0 ]          \* flushes whose `next` channel is closed

\* ----------------------------------------------------------------- bundler
\* The operators below work on st = [b |-> bundler fields, handlers |-> the
\* goroutines running Bundler.handle]; each is one critical section of b.mu.

\* a goroutine started by `go b.handle(bu)`, about to call the handler
NewHandler(bu) == [bu |-> bu, pc |-> "call", batch |-> Nil, via |-> "none", encErr |-> FALSE]

\* mutant of enqueueCurBundle: the closed bundle stays the current bundle
enqueueCurBundleKeepsBundle(st) ==
  IF st.b.curBundle = Nil
    THEN st
    ELSE
      LET stopped == [st.b EXCEPT !.flushTimer = "nil"] IN
      IF st.b.handlerCount < st.b.HandlerLimit
        THEN [b |-> [stopped EXCEPT !.handlerCount = @ + 1],
              handlers |-> st.handlers \cup {NewHandler(st.b.curBundle)}]
        ELSE [b |-> [stopped EXCEPT !.queue = Append(@, st.b.curBundle)],
              handlers |-> st.handlers]

\* mutant of enqueueCurBundle: a handler goroutine is started for every
\* bundle, whatever HandlerLimit is
enqueueCurBundleAlwaysSpawns(st) ==
  IF st.b.curBundle = Nil
    THEN st
    ELSE [b |-> [st.b EXCEPT !.curBundle = Nil, !.flushTimer = "nil",
                             !.handlerCount = @ + 1],
          handlers |-> st.handlers \cup {NewHandler(st.b.curBundle)}]

\* Bundler.enqueueCurBundle
enqueueCurBundle(st) ==
  IF st.b.curBundle = Nil
    THEN st
    ELSE
      LET stopped == [st.b EXCEPT !.curBundle = Nil, !.flushTimer = "nil"] IN
      IF st.b.handlerCount < st.b.HandlerLimit
        THEN [b |-> [stopped EXCEPT !.handlerCount = @ + 1],
              handlers |-> st.handlers \cup {NewHandler(st.b.curBundle)}]
        ELSE [b |-> [stopped EXCEPT !.queue = Append(@, st.b.curBundle)],
              handlers |-> st.handlers]

\* mutant of add: the count threshold is not tested
addWithoutCountThreshold(st, item, size) ==
  LET cur == IF st.b.curBundle = Nil
               THEN [items |-> <<>>, size |-> 0, flush |-> st.b.curFlush]
               ELSE st.b.curBundle
  IN [st EXCEPT
        !.b.wg[st.b.curFlush + 1] = IF st.b.curBundle = Nil THEN @ + 1 ELSE @,
        !.b.curBundle = [cur EXCEPT !.items = Append(@, item), !.size = @ + size],
        !.b.flushTimer = IF @ = "nil" THEN "armed" ELSE @]

\* Bundler.add (b.mu held)
add(st, item, size) ==
  LET s1 == IF /\ st.b.BundleByteLimit > 0
               /\ st.b.curBundle # Nil
               /\ st.b.curBundle.size + size > st.b.BundleByteLimit
              THEN enqueueCurBundle(st)
              ELSE st
      cur == IF s1.b.curBundle = Nil
               THEN [items |-> <<>>, size |-> 0, flush |-> s1.b.curFlush]
               ELSE s1.b.curBundle
      s2 == [s1 EXCEPT
               !.b.wg[s1.b.curFlush + 1] = IF s1.b.curBundle = Nil THEN @ + 1 ELSE @,
               !.b.curBundle = [cur EXCEPT !.items = Append(@, item), !.size = @ + size],
               !.b.flushTimer = IF @ = "nil" THEN "armed" ELSE @]
      s3 == IF Len(s2.b.curBundle.items) = s2.b.BundleCountThreshold
              THEN enqueueCurBundle(s2)
              ELSE s2
      s4 == IF s3.b.curBundle # Nil /\ s3.b.curBundle.size >= s3.b.BundleByteThreshold
              THEN enqueueCurBundle(s3)
              ELSE s3
  IN s4

\* mutant of TryAdd: the semaphore is acquired whatever BufferedByteLimit is
TryAddUnlimited(bb, size) ==
  IF bb.BundleByteLimit > 0 /\ size > bb.BundleByteLimit
    THEN [err |-> ErrOversizedItem, b |-> bb]
    ELSE [err |-> NoErr, b |-> [bb EXCEPT !.sem = @ + size]]

\* Bundler.Add up to b.mu.Lock: the size check and sem.TryAcquire
TryAdd(bb, size) ==
  IF bb.BundleByteLimit > 0 /\ size > bb.BundleByteLimit
    THEN [err |-> ErrOversizedItem, b |-> bb]
    ELSE IF bb.BufferedByteLimit - bb.sem < size
      THEN [err |-> ErrOverflow, b |-> bb]
      ELSE [err |-> NoErr, b |-> [bb EXCEPT !.sem = @ + size]]

\* Bundler.postHandle
postHandle(st, h) ==
  LET rel == [st.b EXCEPT !.sem = @ - h.bu.size, !.wg[h.bu.flush + 1] = @ - 1]
      rest == st.handlers \ {h}
  IN IF rel.queue = <<>>
       THEN [b |-> [rel EXCEPT !.handlerCount = @ - 1], handlers |-> rest]
       ELSE [b |-> [rel EXCEPT !.queue = Tail(@)],
             handlers |-> rest \cup {NewHandler(Head(rel.queue))}]

\* mutant of flushLocked: with no open bundle an empty one is handed over
flushLockedEnqueuesEmpty(st) ==
  LET s0 == IF st.b.curBundle = Nil
              THEN [st EXCEPT !.b.curBundle = [items |-> <<>>, size |-> 0,
                                               flush |-> st.b.curFlush],
                              !.b.wg[st.b.curFlush + 1] = @ + 1]
              ELSE st
      s1 == enqueueCurBundle(s0)
  IN [s1 EXCEPT !.b.curFlush = @ + 1, !.b.wg = Append(@, 0)]

\* Bundler.Flush up to b.mu.Unlock
flushLocked(st) ==
  LET s1 == enqueueCurBundle(st) IN
  [s1 EXCEPT !.b.curFlush = @ + 1, !.b.wg = Append(@, 0)]

\* mutant of flushMayReturn: Flush does not wait for its WaitGroup
flushMayReturnWithoutWait(bb, k) == bb.closed = k

\* Bundler.Flush after b.mu.Unlock: <-prev has returned (the previous Flush
\* closed its channel) and wg.Wait() has returned
flushMayReturn(bb, k) == bb.closed = k /\ bb.wg[k + 1] = 0

\* spans the bundler holds that no handler has been called with
Buffered(bb) ==
  (IF bb.curBundle = Nil THEN {} ELSE {bb.curBundle.items[i].SpanId : i \in 1..Len(bb.curBundle.items)})
  \cup UNION { {bb.queue[q].items[i].SpanId : i \in 1..Len(bb.queue[q].items)} : q \in 1..Len(bb.queue) }

IdsOf(items) == {items[i].SpanId : i \in 1..Len(items)}
IdsOf2(itemSet) == {item.SpanId : item \in itemSet}

\* -------------------------------------------------------------- transports
RECURSIVE BufferLen(_)
\* thrift.TMemoryBuffer.Len
BufferLen(buf) == IF buf = <<>> THEN 0 ELSE Head(buf).len + BufferLen(Tail(buf))

\* Exporter.upload lines 322-325: the transport a batch is dispatched to
uploadVia(ex) == IF ex.endpoint # "" THEN "collector" ELSE "agent"

\* mutant of newBatch: the batch gets a process of its own
newBatchOwnProcess(ex, spans) ==
  [Spans |-> spans, Process |-> [ServiceName |-> defaultServiceName, Tags |-> <<>>]]

\* Exporter.upload lines 318-321
newBatch(ex, spans) == [Spans |-> spans, Process |-> ex.process]

\* mutant of EmitBatchEncode: the buffer is not reset
EmitBatchEncodeNoReset(buf, batch, enc) ==
  Append(buf, [Spans |-> batch.Spans, len |-> enc.len, complete |-> enc.ok])

\* agentClientUDP.EmitBatch lines 77-81: Reset, then encode the batch into
\* the client's buffer
EmitBatchEncode(buf, batch, enc) ==
  LET reset == <<>> IN
  Append(reset, [Spans |-> batch.Spans, len |-> enc.len, complete |-> enc.ok])

\* mutant of EmitBatchSend: a batch of exactly maxPacketSize is rejected
EmitBatchSendRejectsFull(client, buf, batch, encErr, w) ==
  IF encErr
    THEN [err |-> [kind |-> "encode"], writes |-> <<>>]
    ELSE IF BufferLen(buf) >= client.maxPacketSize
      THEN [err |-> [kind |-> "oversize", size |-> BufferLen(buf),
                     max |-> client.maxPacketSize, spans |-> Len(batch.Spans)],
            writes |-> <<>>]
      ELSE [err |-> IF w = "ok" THEN NoErr ELSE [kind |-> "write"],
            writes |-> <<buf>>]

\* agentClientUDP.EmitBatch lines 79-87: the returned error and the Write
\* calls made on the socket
EmitBatchSend(client, buf, batch, encErr, w) ==
  IF encErr
    THEN [err |-> [kind |-> "encode"], writes |-> <<>>]
    ELSE IF BufferLen(buf) > client.maxPacketSize
      THEN [err |-> [kind |-> "oversize", size |-> BufferLen(buf),
                     max |-> client.maxPacketSize, spans |-> Len(batch.Spans)],
            writes |-> <<>>]
      ELSE [err |-> IF w = "ok" THEN NoErr ELSE [kind |-> "write"],
            writes |-> <<buf>>]

\* serialize: the batch written to a thrift.TMemoryBuffer, whose writes
\* do not fail
serialize(obj) == [buf |-> obj, err |-> NoErr]

\* http.NewRequest as uploadCollector calls it: it fails when the URL does
\* not parse
NewRequest(method, url, body) ==
  IF url \in InvalidURLs
    THEN [req |-> Nil, err |-> [kind |-> "url", url |-> url]]
    ELSE [req |-> [method |-> method, url |-> url, body |-> body.buf,
                   contentType |-> "application/x-thrift"],
          err |-> NoErr]

\* mutant of uploadCollector: status 300 counts as a success
uploadCollectorAccepts300(ex, batch, resp) ==
  LET body == serialize(batch)
      r == NewRequest("POST", ex.endpoint, body)
  IN IF body.err # NoErr
       THEN [err |-> body.err, requests |-> <<>>, resp |-> Nil]
       ELSE IF r.err # NoErr
         THEN [err |-> r.err, requests |-> <<>>, resp |-> Nil]
         ELSE IF resp.kind = "netErr"
           THEN [err |-> [kind |-> "net"], requests |-> <<r.req>>, resp |-> resp]
           ELSE IF resp.code < 200 \/ resp.code > 300
             THEN [err |-> [kind |-> "http", status |-> resp.code],
                   requests |-> <<r.req>>, resp |-> resp]
             ELSE [err |-> NoErr, requests |-> <<r.req>>, resp |-> resp]

\* Exporter.uploadCollector: the returned error, the requests performed by
\* http.DefaultClient.Do and the outcome of the request
uploadCollector(ex, batch, resp) ==
  LET body == serialize(batch)
      r == NewRequest("POST", ex.endpoint, body)
  IN IF body.err # NoErr
       THEN [err |-> body.err, requests |-> <<>>, resp |-> Nil]
       ELSE IF r.err # NoErr
         THEN [err |-> r.err, requests |-> <<>>, resp |-> Nil]
         ELSE IF resp.kind = "netErr"
           THEN [err |-> [kind |-> "net"], requests |-> <<r.req>>, resp |-> resp]
           ELSE IF resp.code < 200 \/ resp.code >= 300
             THEN [err |-> [kind |-> "http", status |-> resp.code],
                   requests |-> <<r.req>>, resp |-> resp]
             ELSE [err |-> NoErr, requests |-> <<r.req>>, resp |-> resp]

\* the onError closure of NewExporter, lines 99-105: the errors passed to
\* Options.OnError and those printed by the default logger
onError(opts, err) ==
  IF opts.OnError
    THEN [hook |-> <<err>>, log |-> <<>>]
    ELSE [hook |-> <<>>, log |-> <<err>>]

\* mutant of handlerFunc: the error is reported without testing it
handlerFuncReportsAlways(opts, err) == onError(opts, err)

\* the bundler handler closure, lines 128-132, after upload has returned err
handlerFunc(opts, err) ==
  IF err # NoErr THEN onError(opts, err) ELSE [hook |-> <<>>, log |-> <<>>]

\* ExportSpan line 193: the result of bundler.Add is discarded
ExportSpanReturn(addErr) == NoErr

\* ------------------------------------------------------------------- state
NoExporter ==
  /\ newErr = Nil
  /\ e = Nil
  /\ o = Nil
  /\ connUDP = "none"
  /\ thriftBuffer = <<>>
  /\ b = Nil
  /\ handlers = {}
  /\ adding = {}
  /\ waiting = {}
  /\ nSampled = 0
  /\ nUnsampled = 0
  /\ timerFires = 0
  /\ callerErr = {}
  /\ accepted = {}
  /\ dropped = {}
  /\ uploadCount = [i \in SpanIds |-> 0]
  /\ lastDelivery = Nil

Init ==
  /\ NoExporter
  /\ sd = Nil
  /\ span = Nil

\* spanDataToThrift is about to be called with a span record
InitTranslate ==
  /\ NoExporter
  /\ sd \in SpanDataSet
  /\ span = Nil

translateVars == << sd, span >>
inputVars == << nSampled, nUnsampled, timerFires >>
deliveryObs == << uploadCount, lastDelivery >>

\* NewExporter(o), called once
NewExporter(opts, dial) ==
  /\ newErr = Nil /\ e = Nil
  /\ UNCHANGED translateVars
  /\ UNCHANGED << handlers, adding, waiting, inputVars, accepted, dropped,
                  deliveryObs, thriftBuffer >>
  /\ o' = opts
  /\ IF missingEndpoint(opts)
       THEN /\ newErr' = ErrMissingEndpoint
            /\ callerErr' = callerErr \cup {ErrMissingEndpoint}
            /\ UNCHANGED << e, connUDP, b >>
       ELSE
         LET dest == resolveDestination(opts)
             udp == IF dest.agent
                      THEN newAgentClientUDP(opts.AgentEndpoint, udpPacketMaxLength, dial)
                      ELSE [client |-> Nil, err |-> NoErr, conn |-> "none"]
         IN IF udp.err # NoErr
              THEN /\ newErr' = udp.err
                   /\ callerErr' = callerErr \cup {udp.err}
                   /\ connUDP' = udp.conn
                   /\ UNCHANGED << e, b >>
              ELSE /\ newErr' = NoErr
                   /\ callerErr' = callerErr
                   /\ connUDP' = udp.conn
                   /\ e' = [endpoint |-> dest.endpoint,
                            agentEndpoint |-> opts.AgentEndpoint,
                            client |-> udp.client,
                            process |-> newProcess(opts)]
                   /\ b' = NewBundler(opts)

\* the span records a producer may hand to ExportSpan next: a sampled one
\* while fewer than maxSampled were ingested, an unsampled one likewise
NextSpans(maxSampled, maxUnsampled, maxAdding) ==
  (IF nSampled < maxSampled /\ Cardinality(adding) < maxAdding
     THEN {NewSpanData(SampledSpanID(nSampled + 1), TraceOptionsSampled)} ELSE {})
  \cup
  (IF nUnsampled < maxUnsampled
     THEN {NewSpanData(UnsampledSpanID(nUnsampled + 1), TraceOptionsNotSampled)} ELSE {})

\* a Flush call that is blocked has seen an ExportSpan run beside it
Disturbed(ws) == {[w EXCEPT !.quiet = FALSE] : w \in ws}

\* Exporter.ExportSpan up to b.mu.Lock in Bundler.Add.  Of the translated
\* span the bundler's item keeps SpanId and Flags, which identify it in the
\* delivery runs
ExportSpan(data) ==
  /\ e # Nil
  /\ waiting' = Disturbed(waiting)
  /\ UNCHANGED translateVars
  /\ UNCHANGED << newErr, e, o, connUDP, thriftBuffer, handlers, timerFires,
                  accepted, deliveryObs >>
  /\ IF IsSampled(data)
       THEN \E it \in RangeChoices(data) :
            LET translated == spanDataToThrift(data, it)
                item == [SpanId |-> translated.SpanId, Flags |-> translated.Flags]
                r == TryAdd(b, 1)
            IN /\ nSampled' = nSampled + 1
               /\ nUnsampled' = nUnsampled
               /\ b' = r.b
               /\ adding' = IF r.err = NoErr THEN adding \cup {item} ELSE adding
               /\ dropped' = IF r.err = NoErr THEN dropped ELSE dropped \cup {item.SpanId}
               /\ callerErr' = callerErr \cup ({ExportSpanReturn(r.err)} \ {NoErr})
       ELSE /\ nUnsampled' = nUnsampled + 1
            /\ UNCHANGED << nSampled, b, adding, dropped, callerErr >>

\* Bundler.Add from b.mu.Lock to its return, and the return of ExportSpan
AddLocked(item) ==
  /\ item \in adding
  /\ LET st == add([b |-> b, handlers |-> handlers], item, 1) IN
       /\ b' = st.b
       /\ handlers' = st.handlers
  /\ adding' = adding \ {item}
  /\ accepted' = accepted \cup {item.SpanId}
  /\ waiting' = Disturbed(waiting)
  /\ UNCHANGED translateVars
  /\ UNCHANGED << newErr, e, o, connUDP, thriftBuffer, inputVars, callerErr,
                  dropped, deliveryObs >>

\* the delay timer started by add expires and runs Bundler.tryHandleBundles
TimerFire ==
  /\ b # Nil
  /\ b.flushTimer = "armed"
  /\ timerFires' = timerFires + 1
  /\ LET st == enqueueCurBundle([b |-> b, handlers |-> handlers]) IN
       /\ b' = st.b
       /\ handlers' = st.handlers
  /\ UNCHANGED translateVars
  /\ UNCHANGED << newErr, e, o, connUDP, thriftBuffer, adding, waiting, nSampled,
                  nUnsampled, callerErr, accepted, dropped, deliveryObs >>

\* Exporter.Flush -> Bundler.Flush up to b.mu.Unlock
FlushCall ==
  /\ e # Nil
  /\ LET st == flushLocked([b |-> b, handlers |-> handlers]) IN
       /\ b' = st.b
       /\ handlers' = st.handlers
  /\ waiting' = waiting \cup {[k |-> b.curFlush, snap |-> accepted,
                                done |-> accepted \cup dropped, quiet |-> adding = {}]}
  /\ UNCHANGED translateVars
  /\ UNCHANGED << newErr, e, o, connUDP, thriftBuffer, adding, inputVars,
                  callerErr, accepted, dropped, deliveryObs >>

\* Bundler.Flush: <-prev and wg.Wait() are over, close(next), return
FlushReturn(w) ==
  /\ w \in waiting
  /\ flushMayReturn(b, w.k)
  /\ b' = [b EXCEPT !.closed = @ + 1]
  /\ waiting' = waiting \ {w}
  /\ UNCHANGED translateVars
  /\ UNCHANGED << newErr, e, o, connUDP, thriftBuffer, handlers, adding,
                  inputVars, callerErr, accepted, dropped, deliveryObs >>

\* Bundler.handle calls the handler closure, which calls e.upload: the batch
\* is built and handed to the transport
HandlerCall(h, enc) ==
  /\ h \in handlers
  /\ h.pc = "call"
  /\ LET batch == newBatch(e, h.bu.items)
         via == uploadVia(e)
     IN /\ uploadCount' = [i \in SpanIds |->
                             IF i \in IdsOf(batch.Spans) THEN uploadCount[i] + 1
                                                         ELSE uploadCount[i]]
        /\ IF via = "collector"
             THEN /\ handlers' = (handlers \ {h}) \cup
                       {[h EXCEPT !.pc = "upload", !.batch = batch, !.via = via]}
                  /\ UNCHANGED thriftBuffer
             ELSE IF e.client = Nil
               THEN /\ handlers' = (handlers \ {h}) \cup
                         {[h EXCEPT !.pc = "panic", !.batch = batch, !.via = via]}
                    /\ UNCHANGED thriftBuffer
               ELSE /\ handlers' = (handlers \ {h}) \cup
                         {[h EXCEPT !.pc = "upload", !.batch = batch, !.via = via,
                                    !.encErr = ~enc.ok]}
                    /\ thriftBuffer' = EmitBatchEncode(thriftBuffer, batch, enc)
  /\ UNCHANGED translateVars
  /\ UNCHANGED << newErr, e, o, connUDP, b, adding, waiting, inputVars,
                  callerErr, accepted, dropped, lastDelivery >>

\* e.upload returns, the handler closure reports its error, and
\* Bundler.handle runs postHandle
HandlerReturn(h, resp, w) ==
  /\ h \in handlers
  /\ h.pc = "upload"
  /\ LET r == IF h.via = "collector"
                THEN uploadCollector(e, h.batch, resp) @@ [writes |-> <<>>]
                ELSE EmitBatchSend(e.client, thriftBuffer, h.batch, h.encErr, w)
                       @@ [requests |-> <<>>, resp |-> Nil]
         rep == handlerFunc(o, r.err)
         st == postHandle([b |-> b, handlers |-> handlers], h)
     IN /\ lastDelivery' = [batch |-> h.batch, via |-> h.via, err |-> r.err,
                            enc |-> IF h.via = "agent"
                                      THEN [ok |-> ~h.encErr, len |-> BufferLen(thriftBuffer)]
                                      ELSE [ok |-> TRUE, len |-> 0],
                            writes |-> r.writes, requests |-> r.requests,
                            resp |-> r.resp,
                            hook |-> rep.hook, log |-> rep.log]
        /\ b' = st.b
        /\ handlers' = st.handlers
  /\ UNCHANGED translateVars
  /\ UNCHANGED << newErr, e, o, connUDP, thriftBuffer, adding, waiting,
                  inputVars, callerErr, accepted, dropped, uploadCount >>

\* the steps of the bundler's goroutines and of the transports
Deliver ==
  \/ \E item \in adding : AddLocked(item)
  \/ \E h \in handlers, enc \in EncodeOutcomes : HandlerCall(h, enc)
  \/ \E h \in handlers, resp \in HttpOutcomes, w \in WriteOutcomes : HandlerReturn(h, resp, w)

\* the configurations of the longer runs: one destination of each kind (the
\* collector URL well-formed), each process, the default buffer limit and a
\* small one
RunOptionsSet ==
  { opts \in OptionsSet :
      /\ opts.Endpoint = ""
      /\ (opts.CollectorEndpoint = "") # (opts.AgentEndpoint = "")
      /\ opts.CollectorEndpoint \notin InvalidURLs
      /\ opts.OnError
      /\ opts.ServiceName = "" }

\* every Options value; one producer, a short run
Next ==
  \/ \E opts \in OptionsSet, dial \in DialOutcomes : NewExporter(opts, dial)
  \/ \E data \in NextSpans(CfgSpans, CfgUnsampled, 1) : ExportSpan(data)
  \/ (e # Nil /\ b.curFlush < CfgFlushes /\ FlushCall)
  \/ \E w \in waiting : FlushReturn(w)
  \/ Deliver

Spec == Init /\ [][Next]_vars

\* concurrent producers, Flush calls and deliveries
NextRun ==
  \/ \E opts \in RunOptionsSet : NewExporter(opts, "ok")
  \/ \E data \in NextSpans(MaxSpans, 0, MaxAdding) : ExportSpan(data)
  \/ (e # Nil /\ b.curFlush < MaxFlushes /\ FlushCall)
  \/ \E w \in waiting : FlushReturn(w)
  \/ Deliver

SpecRun == Init /\ [][NextRun]_vars

\* the configurations of the bursts: one destination of each kind, the
\* default buffer limit and a small one
BurstOptionsSet == {opts \in RunOptionsSet : opts.Process.ServiceName = ""}

\* a burst of spans with no Flush call
NextBurst ==
  \/ \E opts \in BurstOptionsSet : NewExporter(opts, "ok")
  \/ \E data \in NextSpans(BurstSpans, 0, 1) : ExportSpan(data)
  \/ (timerFires < BurstTimerFires /\ TimerFire)
  \/ Deliver

SpecBurst == Init /\ [][NextBurst]_vars

\* spanDataToThrift returns the translation of sd
Translate(it) ==
  /\ sd # Nil
  /\ span = Nil
  /\ span' = spanDataToThrift(sd, it)
  /\ UNCHANGED << newErr, e, o, connUDP, thriftBuffer, b, handlers, adding, waiting,
                  inputVars, callerErr, accepted, dropped, deliveryObs, sd >>

\* one call of spanDataToThrift, for each span record and each order in
\* which its maps may be visited
NextTranslate == \E it \in RangeChoices(sd) : Translate(it)

SpecTranslate == InitTranslate /\ [][NextTranslate]_vars

\* ================================================================== claims
\* SpanIds upload has been invoked with
Uploaded == {i \in SpanIds : uploadCount[i] >= 1}
\* SpanIds in bundles whose handler call has not started
AwaitingCall == UNION {IdsOf(h.bu.items) : h \in {x \in handlers : x.pc = "call"}}
\* the handler goroutines inside e.upload
InUpload == {h \in handlers : h.pc = "upload"}
\* the Flush calls of `waiting` that return in this step
Returning == {w \in waiting : \A v \in waiting' : v.k # w.k}

\* ---- C1
\* C1: a delivery whose upload returned an error is reported exactly once,
\* to Options.OnError when set and to the default logger otherwise; a
\* delivery whose upload succeeded is not reported; and the only error a
\* caller of the API ever sees is the one NewExporter returned.
C1_ErrorsGoToTheHookOnly ==
  /\ lastDelivery # Nil =>
       IF lastDelivery.err # NoErr
         THEN IF o.OnError
                THEN lastDelivery.hook = <<lastDelivery.err>> /\ lastDelivery.log = <<>>
                ELSE lastDelivery.hook = <<>> /\ lastDelivery.log = <<lastDelivery.err>>
         ELSE lastDelivery.hook = <<>> /\ lastDelivery.log = <<>>
  /\ callerErr = (IF newErr \in {Nil, NoErr} THEN {} ELSE {newErr})

\* a failed delivery reported to the default logger
C1_Witness ==
  /\ lastDelivery # Nil
  /\ lastDelivery.err # NoErr
  /\ ~o.OnError
  /\ lastDelivery.log = <<lastDelivery.err>>

\* ---- C2
\* C2: upload is invoked at most once with each span, and a span upload was
\* invoked with (whether the delivery failed or not) is neither in the
\* bundler's buffers nor in a bundle waiting for its handler call.
C2_EachSpanUploadedAtMostOnce ==
  /\ \A i \in SpanIds : uploadCount[i] <= 1
  /\ b # Nil => Uploaded \cap (Buffered(b) \cup AwaitingCall \cup IdsOf2(adding)) = {}
  /\ (lastDelivery # Nil /\ lastDelivery.err # NoErr) =>
       /\ IdsOf(lastDelivery.batch.Spans) \subseteq Uploaded
       /\ \A h \in InUpload :
            h.batch # lastDelivery.batch =>
              IdsOf(h.batch.Spans) \cap IdsOf(lastDelivery.batch.Spans) = {}

\* a failed batch, and a later batch being uploaded
C2_Witness ==
  /\ lastDelivery # Nil
  /\ lastDelivery.err # NoErr
  /\ \E h \in InUpload : h.batch # lastDelivery.batch

\* ---- C3
\* C3 as stated: when Flush returns, every sampled span whose ExportSpan
\* completed before the call has been passed to upload, and with no
\* ExportSpan beside the Flush the bundler holds nothing.
C3_Original ==
  [][\A w \in Returning :
        /\ w.done \subseteq Uploaded'
        /\ w.quiet => (b'.sem = 0 /\ Buffered(b') = {})]_vars

\* C3 amended: when Flush returns, every span whose ExportSpan completed
\* before the call with Add accepting it has been passed to upload, and
\* with no ExportSpan beside the Flush the bundler holds nothing.
C3_FlushWaitsForAcceptedSpans ==
  [][\A w \in Returning :
        /\ w.snap \subseteq Uploaded'
        /\ w.quiet => (b'.sem = 0 /\ Buffered(b') = {})]_vars

\* a Flush with accepted spans before it and no ExportSpan beside it, whose
\* waits are over
C3_Witness ==
  \E w \in waiting : w.snap # {} /\ w.quiet /\ flushMayReturn(b, w.k)

\* ---- C4
\* C4 as stated: Options.BufferMaxCount is the delivery threshold, so the
\* open bundle never holds that many spans without being handed to the
\* delivery callback.
C4_Original ==
  (b # Nil /\ o.BufferMaxCount # 0 /\ b.curBundle # Nil) =>
    Len(b.curBundle.items) < o.BufferMaxCount

\* C4 amended: the delivery threshold is the bundler's default count
\* threshold of 10 spans: the open bundle never holds 10 spans, every
\* accepted span is in the bundler's buffers, in a bundle handed to a handler
\* goroutine or has been passed to upload; Options.BufferMaxCount is the cap
\* on the spans the bundler holds.
C4_ThresholdIsTenAndBufferMaxCountIsTheCap ==
  b # Nil =>
    /\ b.curBundle # Nil => Len(b.curBundle.items) < DefaultBundleCountThreshold
    /\ accepted = Buffered(b) \cup AwaitingCall \cup Uploaded
    /\ b.sem <= (IF o.BufferMaxCount # 0 THEN o.BufferMaxCount
                                         ELSE DefaultBufferedByteLimit)

\* upload runs with a batch of 10 spans, with no Flush call and no timer
\* expiration before it
C4_Witness ==
  /\ b # Nil
  /\ b.curFlush = 0
  /\ timerFires = 0
  /\ \E h \in InUpload : Len(h.batch.Spans) = DefaultBundleCountThreshold

\* ---- C5
\* C5 as stated: CollectorEndpoint has priority over Endpoint, so with
\* CollectorEndpoint set every upload is a request to that URL unchanged.
C5_Original ==
  /\ e # Nil =>
       e.endpoint = (IF o.CollectorEndpoint # ""
                       THEN o.CollectorEndpoint
                       ELSE IF o.Endpoint # "" THEN o.Endpoint \o apiSuffix ELSE "")
  /\ (lastDelivery # Nil /\ o.CollectorEndpoint # "") =>
       \A i \in 1..Len(lastDelivery.requests) :
         lastDelivery.requests[i].url = o.CollectorEndpoint

\* C5 amended: the priority order is Endpoint (with the API path appended),
\* then CollectorEndpoint, then AgentEndpoint; with Endpoint set every upload
\* is a request to Endpoint plus the API path, whatever CollectorEndpoint is.
C5_EndpointThenCollectorThenAgent ==
  /\ e # Nil =>
       /\ o.Endpoint # "" => e.endpoint = o.Endpoint \o "/api/traces?format=jaeger.thrift"
       /\ (o.Endpoint = "" /\ o.CollectorEndpoint # "") => e.endpoint = o.CollectorEndpoint
       /\ (o.Endpoint = "" /\ o.CollectorEndpoint = "") =>
            (e.endpoint = "" /\ e.client # Nil /\ connUDP = "open")
  /\ lastDelivery # Nil =>
       IF o.Endpoint # "" \/ o.CollectorEndpoint # ""
         THEN /\ o.Endpoint # "" => Len(lastDelivery.requests) = 1
              /\ \A i \in 1..Len(lastDelivery.requests) :
                   lastDelivery.requests[i].url =
                     (IF o.Endpoint # "" THEN o.Endpoint \o "/api/traces?format=jaeger.thrift"
                                         ELSE o.CollectorEndpoint)
              /\ lastDelivery.writes = <<>>
         ELSE lastDelivery.requests = <<>>

\* a delivery of an exporter made with Endpoint and CollectorEndpoint both set
C5_Witness ==
  /\ lastDelivery # Nil
  /\ o.Endpoint # ""
  /\ o.CollectorEndpoint # ""
  /\ Len(lastDelivery.requests) = 1

\* ---- C6
\* C6: NewExporter returns the configuration error exactly when Endpoint,
\* CollectorEndpoint and AgentEndpoint are all empty, and then there is no
\* exporter, no bundler and no socket.
C6_MissingEndpointIsTheOnlyConfigError ==
  o # Nil =>
    IF o.Endpoint = "" /\ o.CollectorEndpoint = "" /\ o.AgentEndpoint = ""
      THEN /\ newErr = ErrMissingEndpoint
           /\ e = Nil
           /\ b = Nil
           /\ connUDP = "none"
           /\ handlers = {}
      ELSE /\ newErr # ErrMissingEndpoint
           /\ newErr = NoErr <=> e # Nil

\* NewExporter has returned the configuration error
C6_Witness == o # Nil /\ newErr = ErrMissingEndpoint

\* ---- C7
\* C7: an EmitBatch whose encoding succeeded with more than maxPacketSize
\* bytes returns the oversize error naming that length, maxPacketSize and
\* the span count and writes nothing; with at most maxPacketSize bytes it
\* makes one Write, of the encoding of that batch alone.
C7_EmitBatchSizeRule ==
  (lastDelivery # Nil /\ lastDelivery.via = "agent" /\ lastDelivery.enc.ok) =>
    IF lastDelivery.enc.len > udpPacketMaxLength
      THEN /\ lastDelivery.err = [kind |-> "oversize", size |-> lastDelivery.enc.len,
                                  max |-> udpPacketMaxLength,
                                  spans |-> Len(lastDelivery.batch.Spans)]
           /\ lastDelivery.writes = <<>>
      ELSE /\ Len(lastDelivery.writes) = 1
           /\ lastDelivery.writes[1] =
                << [Spans |-> lastDelivery.batch.Spans, len |-> lastDelivery.enc.len,
                    complete |-> TRUE] >>
           /\ lastDelivery.err \in {NoErr, [kind |-> "write"]}

\* a batch of maxPacketSize + 1 bytes was rejected
C7_Witness ==
  /\ lastDelivery # Nil
  /\ lastDelivery.via = "agent"
  /\ lastDelivery.enc = [ok |-> TRUE, len |-> udpPacketMaxLength + 1]
  /\ lastDelivery.err.kind = "oversize"

\* a batch of exactly maxPacketSize bytes was written
C7_WitnessFull ==
  /\ lastDelivery # Nil
  /\ lastDelivery.via = "agent"
  /\ lastDelivery.enc = [ok |-> TRUE, len |-> udpPacketMaxLength]
  /\ lastDelivery.err = NoErr
  /\ Len(lastDelivery.writes) = 1

\* ---- C8
\* every span the bundler, a handler goroutine or a transport holds has the
\* sampling bit set in its Flags
AllSampled ==
  LET held == (IF b = Nil \/ b.curBundle = Nil THEN {}
                 ELSE {b.curBundle.items[i] : i \in 1..Len(b.curBundle.items)})
              \cup (IF b = Nil THEN {}
                      ELSE UNION {{b.queue[q].items[i] : i \in 1..Len(b.queue[q].items)}
                                    : q \in 1..Len(b.queue)})
              \cup UNION {{h.bu.items[i] : i \in 1..Len(h.bu.items)} : h \in handlers}
              \cup adding
              \cup (IF lastDelivery = Nil THEN {}
                      ELSE {lastDelivery.batch.Spans[i] : i \in 1..Len(lastDelivery.batch.Spans)})
  IN /\ \A item \in held : item.Flags % 2 = 1 /\ item.SpanId \in SpanIds
     /\ accepted \cup dropped \subseteq SpanIds

\* C8: an ExportSpan of an unsampled span changes nothing of the bundler, an
\* ExportSpan of a sampled span hands exactly that one translated span to
\* Bundler.Add (which takes it or rejects it), and every span held for
\* delivery or delivered has the sampling bit set.
C8_OnlySampledSpansAreExported ==
  [][/\ nUnsampled' = nUnsampled + 1 =>
          UNCHANGED << b, handlers, adding, accepted, dropped, thriftBuffer,
                       uploadCount, lastDelivery, nSampled >>
     /\ nSampled' = nSampled + 1 =>
          LET item == [SpanId |-> <<0, 0, 0, nSampled + 1>>, Flags |-> TraceOptionsSampled] IN
          /\ nUnsampled' = nUnsampled
          /\ \/ /\ adding' = adding \cup {item}
                /\ item \notin adding
                /\ b' = [b EXCEPT !.sem = @ + 1]
                /\ dropped' = dropped
             \/ /\ adding' = adding
                /\ b' = b
                /\ dropped' = dropped \cup {item.SpanId}
     /\ AllSampled']_vars

\* an unsampled span was ingested, and a batch was delivered
C8_Witness == nUnsampled >= 1 /\ nSampled >= 1 /\ lastDelivery # Nil

\* ---- C9
\* C9: at most one handler goroutine is inside e.upload (and so inside
\* EmitBatch, between the Reset of thriftBuffer and the Write) at any time.
C9_UploadsAreSerialized ==
  /\ Cardinality(InUpload) <= 1
  /\ b # Nil => b.handlerCount <= 1

\* an upload is running while a closed bundle waits in the queue
C9_Witness == b # Nil /\ InUpload # {} /\ b.queue # <<>>

\* ---- C10
\* every batch built so far carries the exporter's process and went to the
\* transport the exporter's endpoint selects
BatchesOfOneExporter ==
  e # Nil =>
    /\ \A h \in handlers :
         h.batch # Nil =>
           /\ h.batch.Process = e.process
           /\ h.via = (IF e.endpoint # "" THEN "collector" ELSE "agent")
    /\ lastDelivery # Nil =>
         /\ lastDelivery.batch.Process = e.process
         /\ lastDelivery.via = (IF e.endpoint # "" THEN "collector" ELSE "agent")
         /\ lastDelivery.via = "collector" =>
              (lastDelivery.writes = <<>> /\ \A i \in 1..Len(lastDelivery.requests) :
                                               lastDelivery.requests[i].url = e.endpoint)
         /\ lastDelivery.via = "agent" => lastDelivery.requests = <<>>
    /\ o.Process.ServiceName # "" => e.process.ServiceName = o.Process.ServiceName
    /\ Len(e.process.Tags) = Len(o.Process.Tags)

\* C10: once NewExporter has returned an exporter, no step changes it, and
\* every batch carries its process and goes to the transport its endpoint
\* selects.
C10_ExporterIsFixedAfterConstruction ==
  [][(e # Nil => e' = e) /\ BatchesOfOneExporter']_vars

\* after a failed delivery a second batch is being uploaded, by an exporter
\* with a configured process
C10_Witness ==
  /\ lastDelivery # Nil
  /\ lastDelivery.err # NoErr
  /\ o.Process.ServiceName = "svc"
  /\ \E h \in InUpload : h.batch # lastDelivery.batch

\* ---- C11
\* C11 as stated: every collector upload performs exactly one request, and
\* it succeeds exactly when the request completed with a status in 200..299;
\* another status gives an error carrying it, a network failure an error.
C11_Original ==
  (lastDelivery # Nil /\ lastDelivery.via = "collector") =>
    /\ Len(lastDelivery.requests) = 1
    /\ lastDelivery.resp # Nil
    /\ lastDelivery.err = NoErr <=>
         (lastDelivery.resp.kind = "status" /\ lastDelivery.resp.code \in 200..299)

\* C11 amended: a collector upload performs at most one request, with no
\* retry, and exactly one when the endpoint parses as a URL (otherwise none,
\* and the upload fails); it succeeds exactly when a request completed with
\* a status in 200..299; a status below 200 or at or above 300 gives an
\* error carrying that status, and a network failure gives an error.
C11_OneRequestAndSuccessIffStatus2xx ==
  (lastDelivery # Nil /\ lastDelivery.via = "collector") =>
    /\ Len(lastDelivery.requests) = (IF e.endpoint \in InvalidURLs THEN 0 ELSE 1)
    /\ lastDelivery.writes = <<>>
    /\ \A i \in 1..Len(lastDelivery.requests) :
         /\ lastDelivery.requests[i].method = "POST"
         /\ lastDelivery.requests[i].url = e.endpoint
         /\ lastDelivery.requests[i].body = lastDelivery.batch
    /\ lastDelivery.requests = <<>> => (lastDelivery.resp = Nil /\ lastDelivery.err # NoErr)
    /\ lastDelivery.requests # <<>> =>
         /\ lastDelivery.resp # Nil
         /\ lastDelivery.resp.kind = "netErr" => lastDelivery.err = [kind |-> "net"]
         /\ lastDelivery.resp.kind = "status" =>
              IF lastDelivery.resp.code < 200 \/ lastDelivery.resp.code >= 300
                THEN lastDelivery.err = [kind |-> "http", status |-> lastDelivery.resp.code]
                ELSE lastDelivery.err = NoErr

\* a collector upload answered with status 300 has failed with that status
C11_Witness ==
  /\ lastDelivery # Nil
  /\ lastDelivery.via = "collector"
  /\ Len(lastDelivery.requests) = 1
  /\ lastDelivery.resp = [kind |-> "status", code |-> 300]
  /\ lastDelivery.err = [kind |-> "http", status |-> 300]

\* ---- translation claims
\* the kinds of value attributeToTag has a case for
SupportedKinds == {"bool", "string", "int64", "int32", "float64"}
\* the keys of a map whose values are of a supported kind
SupportedKeys(attrs) == {k \in DOMAIN attrs : attrs[k].kind \in SupportedKinds}
\* the positions of the tags of a key
TagsOfKey(tags, key) == {i \in 1..Len(tags) : tags[i].Key = key}
\* the keys of the tags spanDataToThrift appends for the status
StatusKeys == {"status.code", "status.message", "error"}
\* the value fields of a tag that are set
Populated(tag) == {f \in {"VBool", "VStr", "VLong", "VDouble"} : tag[f] # Nil}
\* the tag is the wire form of the attribute value a
TagCarries(tag, a) ==
  CASE a.kind = "bool" -> tag.VType = "BOOL" /\ Populated(tag) = {"VBool"} /\ tag.VBool.v = a.v
    [] a.kind = "string" -> tag.VType = "STRING" /\ Populated(tag) = {"VStr"} /\ tag.VStr.v = a.v
    [] a.kind \in {"int64", "int32"} ->
         tag.VType = "LONG" /\ Populated(tag) = {"VLong"} /\ tag.VLong.v = a.v
    [] a.kind = "float64" ->
         tag.VType = "DOUBLE" /\ Populated(tag) = {"VDouble"} /\ tag.VDouble.v = a.v
    [] OTHER -> FALSE

\* ---- C12
\* C12 as stated: the translated tags hold exactly one status.code tag (a
\* LONG) and exactly one status.message tag (a STRING), and a tag error = true
\* is among them exactly when the status code is not 0, whatever the
\* attributes of the span.
C12_Original ==
  span # Nil =>
    /\ \E i \in 1..Len(span.Tags) :
         TagsOfKey(span.Tags, "status.code") = {i} /\ span.Tags[i].VType = "LONG"
    /\ \E i \in 1..Len(span.Tags) :
         TagsOfKey(span.Tags, "status.message") = {i} /\ span.Tags[i].VType = "STRING"
    /\ (\E i \in TagsOfKey(span.Tags, "error") :
          span.Tags[i].VType = "BOOL" /\ span.Tags[i].VBool = [v |-> TRUE])
       <=> sd.Status.Code # 0

\* C12 amended: the translation adds one status.code tag (a LONG carrying
\* the code) and one status.message tag (a STRING carrying the message),
\* and one tag error = true exactly when the status code is not 0; an
\* attribute of the span named status.code, status.message or error gives
\* one more tag of that key, and without such an attribute the tags are as
\* C12 states.
C12_StatusTagsAreAddedToTheAttributes ==
  span # Nil =>
    LET own(key) == IF key \in SupportedKeys(sd.Attributes) THEN 1 ELSE 0
        added(key) == IF key = "error" /\ sd.Status.Code = 0 THEN 0 ELSE 1
    IN /\ \A key \in StatusKeys :
            Cardinality(TagsOfKey(span.Tags, key)) = own(key) + added(key)
       /\ \E i \in TagsOfKey(span.Tags, "status.code") :
            TagCarries(span.Tags[i], [kind |-> "int64", v |-> sd.Status.Code])
       /\ \E i \in TagsOfKey(span.Tags, "status.message") :
            TagCarries(span.Tags[i], [kind |-> "string", v |-> sd.Status.Message])
       /\ sd.Status.Code # 0 =>
            \E i \in TagsOfKey(span.Tags, "error") :
              TagCarries(span.Tags[i], [kind |-> "bool", v |-> TRUE])
       /\ SupportedKeys(sd.Attributes) \cap StatusKeys = {} =>
            (TagsOfKey(span.Tags, "error") # {} <=> sd.Status.Code # 0)

\* a span with status code 0 and an attribute named error has been
\* translated: its tags hold an error tag
C12_Witness ==
  /\ span # Nil
  /\ sd.Status.Code = 0
  /\ "error" \in DOMAIN sd.Attributes
  /\ Cardinality(TagsOfKey(span.Tags, "error")) = 1
  /\ Cardinality(TagsOfKey(span.Tags, "status.code")) = 1

\* ---- C13
\* C13: the translated tags are one tag for each attribute of a supported
\* kind, in some order, then status.code, then status.message, then error
\* when the status code is not 0, and nothing else.
C13_AttributeTagsThenStatusTags ==
  span # Nil =>
    LET keys == SupportedKeys(sd.Attributes)
        n == Cardinality(keys)
    IN /\ Len(span.Tags) = n + 2 + (IF sd.Status.Code # 0 THEN 1 ELSE 0)
       /\ {span.Tags[i].Key : i \in 1..n} = keys
       /\ span.Tags[n + 1].Key = "status.code"
       /\ span.Tags[n + 2].Key = "status.message"
       /\ sd.Status.Code # 0 =>
            (span.Tags[n + 3].Key = "error" /\ span.Tags[n + 3].VBool = [v |-> TRUE])

\* a span with two supported attributes and a nonzero status code has been
\* translated, its attributes visited in the order obj, key
C13_Witness ==
  /\ span # Nil
  /\ sd.Status.Code # 0
  /\ Len(span.Tags) = 5
  /\ span.Tags[1].Key = "obj"
  /\ span.Tags[2].Key = "key"
  /\ span.Tags[5].Key = "error"

\* ---- C14
\* the tags made from a map of attributes: one for each attribute of a
\* supported kind, carrying its value, and none for another attribute
TagsOfAttributes(tags, attrs) ==
  /\ Len(tags) = Cardinality(SupportedKeys(attrs))
  /\ \A k \in DOMAIN attrs :
       IF attrs[k].kind \in SupportedKinds
         THEN \E i \in 1..Len(tags) :
                /\ TagsOfKey(tags, k) = {i}
                /\ TagCarries(tags[i], attrs[k])
         ELSE TagsOfKey(tags, k) = {}

\* C14: an attribute of kind bool, string, int64, int32 or float64 gives one
\* tag with the one value field of its type set to its value (an int32 in
\* the LONG field), an attribute of another kind gives no tag, in the tags of
\* the span and in the fields of its logs, and the tags of the other
\* attributes are the same with it or without it.
C14_OneTagPerSupportedAttribute ==
  span # Nil =>
    /\ TagsOfAttributes(SubSeq(span.Tags, 1, Cardinality(SupportedKeys(sd.Attributes))),
                        sd.Attributes)
    /\ \A i \in 1..Len(span.Tags) : Cardinality(Populated(span.Tags[i])) = 1
    /\ Len(span.Logs) = Len(sd.Annotations)
    /\ \A l \in 1..Len(span.Logs) :
         LET fields == span.Logs[l].Fields IN
         /\ TagsOfAttributes(SubSeq(fields, 1, Len(fields) - 1), sd.Annotations[l].Attributes)
         /\ fields[Len(fields)].Key = "message"
         /\ TagCarries(fields[Len(fields)],
                       [kind |-> "string", v |-> sd.Annotations[l].Message])

\* a span with an attribute of an unsupported kind (a Go int) beside a
\* string attribute, and an annotation with an unsupported attribute, has
\* been translated
C14_Witness ==
  /\ span # Nil
  /\ sd.Attributes = ("key" :> [kind |-> "int", v |-> 3] @@ "obj" :> [kind |-> "string", v |-> "s"])
  /\ sd.Annotations # <<>>
  /\ TagsOfKey(span.Tags, "key") = {}
  /\ span.Tags[1].Key = "obj"
  /\ Len(span.Logs[1].Fields) = 2

\* an int32 attribute has been translated into a LONG tag
C14_WitnessInt32 ==
  /\ span # Nil
  /\ "key" \in DOMAIN sd.Attributes
  /\ sd.Attributes["key"].kind = "int32"
  /\ \E i \in TagsOfKey(span.Tags, "key") : span.Tags[i].VLong = [v |-> 0 - 1]

\* ---- C15
\* the big-endian bytes of an int64 written in base 2^16
Int64Bytes(x) ==
  LET u == [x EXCEPT ![1] = IF @ < 0 THEN @ + 65536 ELSE @] IN
  [i \in 1..8 |-> IF i % 2 = 1 THEN u[(i + 1) \div 2] \div 256 ELSE u[i \div 2] % 256]
\* x is an int64 written in base 2^16
IsInt64(x) ==
  /\ Len(x) = 4
  /\ x[1] \in (0 - 32768)..32767
  /\ \A i \in 2..4 : x[i] \in 0..65535

\* C15: TraceIdHigh and TraceIdLow are the int64 values of bytes 0..7 and
\* 8..15 of the trace identifier read most significant byte first, negative
\* exactly when the first byte has its top bit set, and their big-endian
\* bytes put together are the 16 bytes of the identifier; the same holds of
\* SpanId, ParentSpanId and the identifiers of the references.
C15_IdentifiersSplitBigEndian ==
  span # Nil =>
    /\ IsInt64(span.TraceIdHigh) /\ IsInt64(span.TraceIdLow)
    /\ IsInt64(span.SpanId) /\ IsInt64(span.ParentSpanId)
    /\ Int64Bytes(span.TraceIdHigh) \o Int64Bytes(span.TraceIdLow) = sd.TraceID
    /\ Int64Bytes(span.SpanId) = sd.SpanID
    /\ Int64Bytes(span.ParentSpanId) = sd.ParentSpanID
    /\ span.TraceIdHigh[1] < 0 <=> sd.TraceID[1] >= 128
    /\ span.TraceIdLow[1] < 0 <=> sd.TraceID[9] >= 128
    /\ span.SpanId[1] < 0 <=> sd.SpanID[1] >= 128
    /\ sd.TraceID = <<1, 2, 3, 4, 5, 6, 7, 8, 9, 10, 11, 12, 13, 14, 15, 16>> =>
         /\ span.TraceIdHigh = <<258, 772, 1286, 1800>>
         /\ span.TraceIdLow = <<2314, 2828, 3342, 3856>>
    /\ sd.TraceID[1] = 255 /\ (\A i \in 2..8 : sd.TraceID[i] = 0) =>
         span.TraceIdHigh = <<0 - 256, 0, 0, 0>>
    /\ Len(span.References) = Len(sd.Links)
    /\ \A r \in 1..Len(span.References) :
         /\ Int64Bytes(span.References[r].TraceIdHigh)
              \o Int64Bytes(span.References[r].TraceIdLow) = sd.Links[r].TraceID
         /\ Int64Bytes(span.References[r].SpanId) = sd.Links[r].SpanID

\* a trace identifier whose first byte is 255 has been split: its high half
\* is negative
C15_Witness ==
  /\ span # Nil
  /\ sd.TraceID[1] = 255
  /\ span.TraceIdHigh[1] < 0
  /\ span.TraceIdLow = <<0, 0, 0, 1>>
  /\ sd.Links # <<>>

\* ---- C16
\* C16: the operation name is "Sent." and the span name for a client span,
\* "Recv." and the span name for a server span, and the span name for a span
\* of any other kind.
C16_NamePrefixBySpanKind ==
  span # Nil =>
    /\ sd.SpanKind = SpanKindClient => span.OperationName = "Sent." \o sd.Name
    /\ sd.SpanKind = SpanKindServer => span.OperationName = "Recv." \o sd.Name
    /\ sd.SpanKind \notin {SpanKindClient, SpanKindServer} => span.OperationName = sd.Name

\* a server span has been translated
C16_Witness ==
  /\ span # Nil
  /\ sd.SpanKind = SpanKindServer
  /\ span.OperationName = "Recv./foo"

\* ---- C17
\* C17 as stated: a Flush call on an exporter whose bundler holds no span
\* still triggers a delivery: a handler goroutine is started, or a bundle
\* queued, for that flush.
C17_Original ==
  [][(b # Nil /\ b' # Nil /\ b'.curFlush = b.curFlush + 1 /\ Buffered(b) = {}) =>
       (handlers' # handlers \/ b'.queue # b.queue)]_vars

\* C17 amended: a Flush call hands the open bundle, if there is one, to a
\* handler goroutine or to the queue; with no open bundle it starts no
\* handler and queues nothing, and the delivery callback is never invoked
\* with an empty list of spans.
C17_FlushOfNothingDeliversNothing ==
  [][/\ (b # Nil /\ b' # Nil /\ b'.curFlush = b.curFlush + 1) =>
          /\ b'.curBundle = Nil
          /\ uploadCount' = uploadCount
          /\ lastDelivery' = lastDelivery
          /\ IF b.curBundle = Nil
               THEN handlers' = handlers /\ b'.queue = b.queue
                    /\ b'.handlerCount = b.handlerCount
               ELSE \/ handlers' = handlers \cup {NewHandler(b.curBundle)}
                    \/ b'.queue = Append(b.queue, b.curBundle)
     /\ \A h \in handlers' : h.bu.items # <<>>
     /\ lastDelivery' # Nil => lastDelivery'.batch.Spans # <<>>]_vars

\* a Flush called before any span was exported has returned, and no
\* delivery was made
C17_Witness ==
  /\ b # Nil
  /\ b.closed >= 1
  /\ nSampled = 0
  /\ waiting = {}
  /\ handlers = {}
  /\ lastDelivery = Nil

\* ---- C18
\* C18: an exporter NewExporter returned has either a non-empty endpoint and
\* no UDP client (and no socket was opened), or an empty endpoint and a UDP
\* client (whose socket is open); upload never reaches EmitBatch with a nil
\* client, whatever options are set together.
C18_ExactlyOneTransport ==
  /\ e # Nil =>
       \/ e.endpoint # "" /\ e.client = Nil /\ connUDP = "none"
       \/ e.endpoint = "" /\ e.client # Nil /\ connUDP = "open"
  /\ \A h \in handlers : h.pc # "panic"
  /\ \A h \in handlers : h.via = "agent" => e.client # Nil
  /\ (lastDelivery # Nil /\ lastDelivery.via = "agent") => e.client # Nil
  /\ (o # Nil /\ e = Nil) => newErr \notin {Nil, NoErr}

\* an exporter made with CollectorEndpoint and AgentEndpoint both set has
\* delivered a batch, to the collector
C18_Witness ==
  /\ e # Nil
  /\ o.Endpoint = ""
  /\ o.CollectorEndpoint # ""
  /\ o.AgentEndpoint # ""
  /\ e.client = Nil
  /\ lastDelivery # Nil
  /\ lastDelivery.via = "collector"

\* an exporter made with AgentEndpoint alone has delivered a batch
C18_WitnessAgent ==
  /\ e # Nil
  /\ e.endpoint = ""
  /\ lastDelivery # Nil
  /\ lastDelivery.via = "agent"

\* ---- C19
\* C19: with BufferMaxCount set, an ExportSpan of a sampled span made while
\* the bundler holds BufferMaxCount spans whose delivery has not returned
\* drops the span: the bundler, the handler goroutines and the deliveries
\* are unchanged, no error goes to the caller or to the error hook, and a
\* dropped span is never held for delivery nor passed to upload; no span is
\* dropped otherwise.
C19_OverflowDropsTheSpanSilently ==
  [][/\ (nSampled' = nSampled + 1 /\ o.BufferMaxCount # 0 /\ b.sem >= o.BufferMaxCount) =>
          /\ dropped' = dropped \cup {bytesToInt64(SampledSpanID(nSampled + 1))}
          /\ UNCHANGED << b, handlers, adding, accepted, callerErr, uploadCount,
                          lastDelivery, thriftBuffer >>
     /\ dropped' # dropped =>
          (nSampled' = nSampled + 1 /\ o.BufferMaxCount # 0 /\ b.sem = o.BufferMaxCount)
     /\ b' # Nil =>
          dropped' \cap (Uploaded' \cup Buffered(b') \cup AwaitingCall'
                          \cup IdsOf2(adding') \cup accepted') = {}]_vars

\* a span was dropped, and everything the bundler had accepted has been
\* delivered
C19_Witness ==
  /\ b # Nil
  /\ dropped # {}
  /\ b.sem = 0
  /\ handlers = {}
  /\ adding = {}
  /\ lastDelivery # Nil
  /\ dropped \cap Uploaded = {}
  /\ lastDelivery.err # ErrOverflow

\* ---- C20
\* C20: the encoding buffer of the agent client holds the encoding of at
\* most one batch, the batch of the EmitBatch call that is running or ran
\* last, and every Write is made with the encoding of the batch of its
\* EmitBatch call alone, whatever the outcome of the calls before.
C20_DatagramIsOneBatch ==
  /\ Len(thriftBuffer) <= 1
  /\ \A h \in InUpload :
       h.via = "agent" =>
         /\ Len(thriftBuffer) = 1
         /\ thriftBuffer[1].Spans = h.batch.Spans
  /\ (lastDelivery # Nil /\ lastDelivery.via = "agent") =>
       \A i \in 1..Len(lastDelivery.writes) :
         /\ Len(lastDelivery.writes[i]) = 1
         /\ lastDelivery.writes[i][1].Spans = lastDelivery.batch.Spans
         /\ lastDelivery.writes[i][1].complete

\* after an EmitBatch that failed, the next batch has been encoded: the
\* buffer holds that batch alone
C20_Witness ==
  /\ lastDelivery # Nil
  /\ lastDelivery.via = "agent"
  /\ lastDelivery.err # NoErr
  /\ \E h \in InUpload :
       /\ h.batch.Spans # lastDelivery.batch.Spans
       /\ thriftBuffer = << [Spans |-> h.batch.Spans, len |-> udpPacketMaxLength,
                              complete |-> TRUE] >>

====
